---- MODULE Spec2Model ----
(***************************************************************************)
(* DocSnap: the session controller (src/app/page.tsx), image acquisition   *)
(* (src/components/ImageInput.tsx, the variant with the readiness gate,    *)
(* lines 190-416), the corner editor (src/components/CornerEditor.tsx),    *)
(* the rectification pipeline (src/components/DocumentProcessor.tsx) and   *)
(* the memoized library initialization (src/lib/opencv.ts).                *)
(*                                                                         *)
(* React state is modelled as the committed value of every useState cell.  *)
(* A handler bound to a rendered element reads the committed values (its   *)
(* closure).  Handlers dispatched by React for click/change events flush   *)
(* their updates synchronously when the handler returns.  Updates made     *)
(* from callbacks React does not dispatch (img.onload, img.onerror, the    *)
(* continuation of an await, setTimeout, video.onloadedmetadata) are       *)
(* batched in `pending` and applied, in order, by the next render; a       *)
(* click flush renders them too.  State updater functions run when the     *)
(* render processes them.  pointermove is a continuous event: React        *)
(* batches its updates like those of a callback, pointerdown and pointerup *)
(* are discrete and flush.  The setState calls of a useEffect are batched  *)
(* when the render that scheduled the effect commits.                      *)
(***************************************************************************)
EXTENDS Integers, Sequences, FiniteSets, TLC

VARIABLES
    home,      \* Home's useState cells: imageUrl, imageElement, imageSize, corners, error
    input,     \* ImageInput's cells and refs (the instance mounted while imageUrl is null)
    video,     \* the <video> element ImageInput renders while isCameraMode
    proc,      \* DocumentProcessor's cells (the instance mounted while an image is loaded)
    pending,   \* batched state updates waiting for the next render
    revoked,   \* per object URL: number of URL.revokeObjectURL calls
    created,   \* number of URL.createObjectURL calls so far
    decodes,   \* Image objects whose src is loading
    blobs,     \* canvas.toBlob callbacks not yet called
    starts,    \* getUserMedia promises not yet settled
    tracks,    \* per granted stream: is its video track still running
    timers,    \* readiness timeouts armed and not yet fired or cleared
    runs,      \* processDocument calls suspended at `await getOpenCV()`
    cv,        \* module state of src/lib/opencv.ts and the loadOpenCV promises
    mats,      \* cv.Mat buffers of the most recent pipeline run
    failed,    \* history: the object URLs whose image failed to decode
    editor,    \* CornerEditor's cells and drag ref (the instance mounted with an image)
    layout,    \* the box getBoundingClientRect() reports for the editor's <img>
    moves,     \* number of pointermove events handled during a drag so far
    held       \* the markers a pointer went down on since the last pointerup or pointerleave

vars == <<home, input, video, proc, pending, revoked, created, decodes, blobs,
          starts, tracks, timers, runs, cv, mats, failed, editor, layout, moves, held>>

----------------------------------------------------------------------------
(* Bounds *)

MaxUrls == 2       \* object URLs created in one session
MaxDecodes == 2    \* images decoding at the same time
MaxPending == 2    \* batches waiting for a render
MaxStarts == 3     \* getUserMedia requests in flight
MaxStreams == 3    \* streams granted in one session
MaxRuns == 2       \* pipeline runs suspended at the await
MaxBlobs == 1      \* toBlob callbacks outstanding
RevokeCap == 3     \* revocation counts saturate here
MaxMoves == 2      \* pointermove events handled in one session
MaxSide == 4       \* width and height of the smallest images

----------------------------------------------------------------------------
(* Values *)

NoUrl == 0
NoStream == 0
NoTimer == 0
NoPromise == 0
Sub == 20          \* coordinates are kept in 1/20 pixel: 0.05 * n pixels = n units

Min(a, b) == IF a <= b THEN a ELSE b

MsgInvalidType == "InvalidType"
MsgDecodeError == "DecodeError"
MsgCameraAccess == "CameraAccessDenied"
MsgCameraNotReady == "CameraNotReady"
MsgLibraryInit == "LibraryInitFailed"
MsgProcessing == "LibraryOperationFailed"

\* Files the user can pick: MIME type as <<type, subtype>>, whether the
\* browser can decode it, and its natural size in pixels.
Files ==
    { [type |-> <<"application", "pdf">>, decodable |-> FALSE, width |-> 0, height |-> 0],
      [type |-> <<"image", "png">>, decodable |-> FALSE, width |-> 0, height |-> 0],
      [type |-> <<"image", "png">>, decodable |-> TRUE, width |-> 1000, height |-> 800],
      [type |-> <<"image", "jpeg">>, decodable |-> TRUE, width |-> 40, height |-> 20] }

\* file.type.startsWith("image/")
IsImageType(type) == type[1] = "image"

\* url.startsWith("blob:"): every URL of the session comes from createObjectURL
IsBlobUrl(u) == u >= 1

\* the frame size of the camera stream
CameraWidth == 40
CameraHeight == 20

\* getDefaultCorners with the margin taken from the width alone
getDefaultCorners_widthMargin(width, height) ==
    << <<width, width>>,
       <<Sub * width - width, width>>,
       <<Sub * width - width, Sub * height - width>>,
       <<width, Sub * height - width>> >>

\* getDefaultCorners with an inset of 5% of the width at the left and right
\* and 5% of the height at the top and bottom
getDefaultCorners_sideMargin(width, height) ==
    << <<width, height>>,
       <<Sub * width - width, height>>,
       <<Sub * width - width, Sub * height - height>>,
       <<width, Sub * height - height>> >>

getDefaultCorners(width, height) ==
    LET margin == Min(width, height)      \* Math.min(width, height) * 0.05, in 1/20 pixel
    IN  << <<margin, margin>>,
           <<Sub * width - margin, margin>>,
           <<Sub * width - margin, Sub * height - margin>>,
           <<margin, Sub * height - margin>> >>

\* Number.NaN as a coordinate: every coordinate that is a number is >= 0
NaN == 0 - 1

Max(a, b) == IF a >= b THEN a ELSE b

\* a scale factor is the quotient <<numerator, denominator>> of two lengths in
\* CSS pixels; a zero denominator is Infinity (n / 0 with n > 0)
UnitScale == [x |-> <<1, 1>>, y |-> <<1, 1>>]

\* the box of an <img> that has no image data yet
NoBox == <<0, 0>>

\* boxes the browser gives the <img> showing an image of `size`: none yet,
\* or scaled down to half the natural size by max-w-full / max-height
Boxes(size) == {NoBox, <<size[1] \div 2, size[2] \div 2>>}

\* updateScale: { x: imageWidth / rect.width, y: imageHeight / rect.height }
updateScale(size, rect) == [x |-> <<size[1], rect[1]>>, y |-> <<size[2], rect[2]>>]

\* Math.max(0, Math.min(limit, display * scale)), in 1/20 pixel.
\* display * Infinity is NaN for display = 0, else +-Infinity; Math.min and
\* Math.max return NaN when an argument is NaN.
ClampScaled(display, scale, limit) ==
    IF scale[2] = 0
    THEN IF display = 0 THEN NaN
         ELSE IF display > 0 THEN Sub * limit ELSE 0
    ELSE Max(0, Min(Sub * limit, (Sub * display * scale[1]) \div scale[2]))

toImageCoords(displayX, displayY, scale, imageWidth, imageHeight) ==
    << ClampScaled(displayX, scale.x, imageWidth),
       ClampScaled(displayY, scale.y, imageHeight) >>

RevokeObjectURL(rv, u) == [rv EXCEPT ![u] = Min(@ + 1, RevokeCap)]

----------------------------------------------------------------------------
(* Initial component state *)

InitHome ==
    [imageUrl |-> NoUrl, imageElement |-> <<>>, imageSize |-> <<>>,
     corners |-> <<>>, error |-> ""]

InitInput ==
    [isCameraMode |-> FALSE, cameraError |-> "", isVideoReady |-> FALSE,
     streamRef |-> NoStream, readyTimeoutRef |-> NoTimer]

InitVideo == [srcObject |-> NoStream, onloadedmetadata |-> FALSE, loaded |-> FALSE]

InitProc ==
    [isProcessing |-> FALSE, loadingMessage |-> "", resultUrl |-> <<>>,
     contrast |-> 200, sharpness |-> 0, binarize |-> "light"]

\* CornerEditor.tsx:36-46  useState(corners), useState({x: 1, y: 1}),
\* useState(null), useRef(null); activeIndex and dragStartRef hold 0 for
\* null and 1..4 for the corner indices 0..3
InitEditor(corners) ==
    [displayCorners |-> corners, scale |-> UnitScale, activeIndex |-> 0,
     dragStartRef |-> 0]

InitCv == [cvPromise |-> NoPromise, loadCalls |-> 0, settled |-> <<>>]

BufferNames ==
    {"src", "srcPoints", "dstPoints", "M", "work", "contrastMat", "blurred",
     "sharpResult", "gray", "binary", "rgba"}

InitMats == [b \in BufferNames |-> "unalloc"]

\* What the page renders (src/app/page.tsx:58-107)
InputMounted(h) == h.imageUrl = NoUrl
EditorMounted(h) == h.imageUrl # NoUrl /\ h.imageSize # <<>> /\ h.corners # <<>>
ProcessorMounted(h) == h.imageUrl # NoUrl /\ h.imageElement # <<>> /\ h.corners # <<>>
ErrorShown(h) == h.imageUrl # NoUrl /\ h.error # ""
CameraErrorShown(h, i) == InputMounted(h) /\ i.cameraError # ""
VideoMounted(h, i) == InputMounted(h) /\ i.isCameraMode

----------------------------------------------------------------------------
(* src/app/page.tsx: the state updates of Home's handlers.  `st` is the    *)
(* state a render works on: [home, input, proc, revoked].                  *)

\* setImageUrl((prev) => { if (prev && prev.startsWith("blob:")) revoke(prev); return url })
ReplaceImageUrl(rv, prev, url) ==
    IF prev # NoUrl /\ IsBlobUrl(prev) THEN RevokeObjectURL(rv, prev) ELSE rv

\* handleImageSelect without setCorners(defaults)
handleImageSelect_keepCorners(st, url, width, height) ==
    [st EXCEPT
        !.revoked = ReplaceImageUrl(@, st.home.imageUrl, url),
        !.home = [imageUrl |-> url,
                  imageElement |-> <<url, width, height>>,
                  imageSize |-> <<width, height>>,
                  corners |-> st.home.corners,
                  error |-> ""]]

handleImageSelect(st, url, width, height) ==
    [st EXCEPT
        !.revoked = ReplaceImageUrl(@, st.home.imageUrl, url),
        !.home = [imageUrl |-> url,
                  imageElement |-> <<url, width, height>>,
                  imageSize |-> <<width, height>>,
                  corners |-> getDefaultCorners(width, height),
                  error |-> ""]]

handleError(st, message) == [st EXCEPT !.home.error = message]

\* handleNewImage without setCorners(null)
ResetSession_keepCorners(st) ==
    [st EXCEPT !.home = [imageUrl |-> NoUrl, imageElement |-> <<>>,
                         imageSize |-> <<>>, corners |-> st.home.corners, error |-> ""]]

\* the five setters of handleNewImage (the revocation is done by the handler itself)
ResetSession(st) ==
    [st EXCEPT !.home = [imageUrl |-> NoUrl, imageElement |-> <<>>,
                         imageSize |-> <<>>, corners |-> <<>>, error |-> ""]]

----------------------------------------------------------------------------
(* src/components/ImageInput.tsx: state updates of the camera handlers *)

StartCameraUpdates(st) ==
    [st EXCEPT !.input.cameraError = "", !.input.isVideoReady = FALSE]

CameraStartedUpdates(st) == [st EXCEPT !.input.isCameraMode = TRUE]

\* the catch of startCamera: setCameraError(message); onError?.(message)
CameraFailedUpdates(st, old, message) ==
    handleError(IF old THEN st ELSE [st EXCEPT !.input.cameraError = message], message)

\* setIsVideoReady(true) in onReady, setIsVideoReady((r) => r || true) in the timeout
VideoReadyUpdates(st) == [st EXCEPT !.input.isVideoReady = (@ \/ TRUE)]

StopCameraUpdates(st) ==
    [st EXCEPT !.input.isCameraMode = FALSE,
               !.input.isVideoReady = FALSE,
               !.input.cameraError = ""]

----------------------------------------------------------------------------
(* src/components/CornerEditor.tsx: state updates of the editor's handlers *)
(* and effects.  onCornersChange is Home's setCorners.                     *)

\* handlePointerMove / handleReset: setDisplayCorners(c); onCornersChange(c)
SetBothCorners(st, c) ==
    [st EXCEPT !.editor.displayCorners = c, !.home.corners = c]

\* useEffect(() => setDisplayCorners(corners), [corners])
SyncDisplayCorners(st, c) == [st EXCEPT !.editor.displayCorners = c]

----------------------------------------------------------------------------
(* src/components/DocumentProcessor.tsx: state updates of processDocument *)

ProcessStartUpdates(st) ==
    [st EXCEPT !.proc.isProcessing = TRUE,
               !.proc.resultUrl = <<>>,
               !.proc.loadingMessage = "loading"]

\* what the continuation after the await sets: setResultUrl(url) if the
\* inner try reached it, onError(message) in the catch, the two setters of
\* the outer finally.  Setters of an unmounted instance do nothing.
ProcessEndUpdates(st, old, resultSet, url, thrown, message) ==
    LET s1 == IF old THEN st
              ELSE [st EXCEPT !.proc.resultUrl = IF resultSet THEN url ELSE @,
                              !.proc.isProcessing = FALSE,
                              !.proc.loadingMessage = ""]
    IN  IF thrown THEN handleError(s1, message) ELSE s1

----------------------------------------------------------------------------
(* Rendering *)

ApplyBatch(st, b) ==
    CASE b.k = "handleImageSelect" -> handleImageSelect(st, b.url, b.width, b.height)
      [] b.k = "handleError" -> handleError(st, b.message)
      [] b.k = "handleNewImage" -> ResetSession(st)
      [] b.k = "startCamera" -> StartCameraUpdates(st)
      [] b.k = "cameraStarted" -> CameraStartedUpdates(st)
      [] b.k = "cameraFailed" -> CameraFailedUpdates(st, b.old, b.message)
      [] b.k = "videoReady" -> VideoReadyUpdates(st)
      [] b.k = "stopCamera" -> StopCameraUpdates(st)
      [] b.k = "processStart" -> ProcessStartUpdates(st)
      [] b.k = "processEnd" ->
            ProcessEndUpdates(st, b.old, b.resultSet, b.url, b.thrown, b.message)
      [] b.k = "setContrast" -> [st EXCEPT !.proc.contrast = b.value]
      [] b.k = "setSharpness" -> [st EXCEPT !.proc.sharpness = b.value]
      [] b.k = "setBinarize" -> [st EXCEPT !.proc.binarize = b.value]
      [] b.k = "pointerDown" -> [st EXCEPT !.editor.activeIndex = b.index]
      [] b.k = "pointerMove" -> SetBothCorners(st, b.corners)
      [] b.k = "pointerUp" -> [st EXCEPT !.editor.activeIndex = 0]
      [] b.k = "reset" -> SetBothCorners(st, b.corners)
      [] b.k = "setDisplayCorners" -> SyncDisplayCorners(st, b.corners)
      [] b.k = "setScale" -> [st EXCEPT !.editor.scale = b.scale]

RECURSIVE ApplyAll(_, _)
ApplyAll(st, q) ==
    IF q = <<>> THEN st ELSE ApplyAll(ApplyBatch(st, Head(q)), Tail(q))

\* One render pass over base state `st` (the committed state with the
\* handler's ref assignments applied): every batched update is processed in
\* order, then the tree is reconciled: a component that is no longer
\* rendered loses its state, one that is newly rendered starts from its
\* initial state.
Rendered(st0, q) ==
    LET st == ApplyAll(st0, q)
        inputStays == InputMounted(home) /\ InputMounted(st.home)
        procStays == ProcessorMounted(home) /\ ProcessorMounted(st.home)
        editorStays == EditorMounted(home) /\ EditorMounted(st.home)
    IN  [home |-> st.home,
         input |-> IF inputStays THEN st.input ELSE InitInput,
         proc |-> IF procStays THEN st.proc ELSE InitProc,
         editor |-> IF editorStays THEN st.editor ELSE InitEditor(st.home.corners),
         revoked |-> st.revoked,
         inputStays |-> inputStays,
         procStays |-> procStays,
         editorStays |-> editorStays]

Committed ==
    [home |-> home, input |-> input, proc |-> proc, editor |-> editor,
     revoked |-> revoked]

\* CornerEditor.tsx:82-105  the effects the commit of render r schedules, as
\* the updates they make: setDisplayCorners(corners) when `corners` is a new
\* value, updateScale() when the editor mounts or the image changes.  `box`
\* is the box of the <img> when the effect runs.  A setState with the value
\* the cell already holds changes nothing and is left out.
Effects(r, box) ==
    LET mounts == ~r.editorStays
        syncRuns == mounts \/ r.home.corners # home.corners
        scaleRuns == mounts \/ r.home.imageSize # home.imageSize
                            \/ r.home.imageUrl # home.imageUrl
        newScale == updateScale(r.home.imageSize, box)
    IN  IF ~EditorMounted(r.home) THEN <<>>
        ELSE (IF syncRuns /\ r.editor.displayCorners # r.home.corners
              THEN <<[k |-> "setDisplayCorners", corners |-> r.home.corners]>>
              ELSE <<>>)
             \o (IF scaleRuns /\ r.editor.scale # newScale
                 THEN <<[k |-> "setScale", scale |-> newScale]>>
                 ELSE <<>>)

\* the getUserMedia requests of an unmounted ImageInput settle into nothing it renders
OrphanStarts(ss) ==
    [k \in DOMAIN ss |-> IF k.old THEN ss[k] + ss[[k EXCEPT !.old = FALSE]] ELSE 0]

\* The commit of a render of queue q over st0.  `vid`, `tm`, `ss` are the
\* video element, timers and getUserMedia requests as the handler left them,
\* `rs` the suspended pipeline runs.
Commit(st0, q, vid, tm, ss, rs) ==
    LET r == Rendered(st0, q)
    IN  /\ home' = r.home
        /\ input' = r.input
        /\ proc' = r.proc
        /\ editor' = r.editor
        /\ revoked' = r.revoked
        \* a newly inserted <img> has no box until its image data is there
        /\ layout' = IF r.editorStays THEN layout ELSE NoBox
        /\ pending' = Effects(r, layout')
        \* an unmounted <video> is gone; a newly mounted one has no source
        /\ video' = IF VideoMounted(home, input) /\ VideoMounted(r.home, r.input)
                    THEN vid ELSE InitVideo
        \* callbacks of an unmounted instance set state on nothing
        /\ timers' = IF r.inputStays THEN tm ELSE {}
        /\ starts' = IF InputMounted(home) /\ ~r.inputStays THEN OrphanStarts(ss) ELSE ss
        /\ runs' = IF ProcessorMounted(home) /\ ~r.procStays
                   THEN {[x EXCEPT !.old = TRUE] : x \in rs}
                   ELSE rs

----------------------------------------------------------------------------
(* src/lib/opencv.ts *)

\* getOpenCV without the `if (!cvPromise)` test
getOpenCV_noMemo(c) ==
    [cvPromise |-> c.loadCalls + 1,
     loadCalls |-> c.loadCalls + 1,
     settled |-> Append(c.settled, "pending")]

\* if (!cvPromise) cvPromise = loadOpenCV(); return cvPromise
getOpenCV(c) ==
    IF c.cvPromise = NoPromise
    THEN [cvPromise |-> c.loadCalls + 1,
          loadCalls |-> c.loadCalls + 1,
          settled |-> Append(c.settled, "pending")]
    ELSE c

----------------------------------------------------------------------------
(* src/components/DocumentProcessor.tsx:48-76 and 145-147: the destination  *)
(* size.  Lengths are in 1/20 pixel; a length that is not a multiple of     *)
(* 1/20 pixel is rounded down to one.                                       *)

Abs(a) == IF a >= 0 THEN a ELSE 0 - a

\* the largest root r in lo..hi with r * r <= n
RECURSIVE RootIn(_, _, _)
RootIn(n, lo, hi) ==
    IF lo >= hi THEN lo
    ELSE LET mid == (lo + hi + 1) \div 2
         IN  IF mid * mid <= n THEN RootIn(n, mid, hi) ELSE RootIn(n, lo, mid - 1)

\* Math.hypot(q.x - p.x, q.y - p.y); NaN when a coordinate is NaN
hypot(p, q) ==
    IF NaN \in {p[1], p[2], q[1], q[2]} THEN NaN
    ELSE LET dx == q[1] - p[1]
             dy == q[2] - p[2]
         IN  IF dy = 0 THEN Abs(dx)
             ELSE IF dx = 0 THEN Abs(dy)
             ELSE RootIn(dx * dx + dy * dy, 0, Abs(dx) + Abs(dy))

\* Math.max(a, b) of two lengths: NaN when an argument is NaN
MathMax(a, b) == IF a = NaN \/ b = NaN THEN NaN ELSE Max(a, b)

\* Math.max taking the smaller of the two opposing edges
dstSize_min(corners) ==
    << IF NaN \in {hypot(corners[1], corners[2]), hypot(corners[4], corners[3])}
       THEN NaN ELSE Min(hypot(corners[1], corners[2]), hypot(corners[4], corners[3])),
       IF NaN \in {hypot(corners[1], corners[4]), hypot(corners[2], corners[3])}
       THEN NaN ELSE Min(hypot(corners[1], corners[4]), hypot(corners[2], corners[3])) >>

\* :48-65  <<dstWidth, dstHeight>>
dstSize(corners) ==
    << MathMax(hypot(corners[1], corners[2]), hypot(corners[4], corners[3])),
       MathMax(hypot(corners[1], corners[4]), hypot(corners[2], corners[3])) >>

\* :67-76  the four destination points handed to cv.matFromArray
dstPoints(dst) == << <<0, 0>>, <<dst[1], 0>>, <<dst[1], dst[2]>>, <<0, dst[2]>> >>

\* :146-147  canvas.width = dstWidth: the attribute is an unsigned long, the
\* number is truncated to whole pixels and NaN becomes 0
CanvasSize(dst) ==
    << IF dst[1] = NaN THEN 0 ELSE dst[1] \div Sub,
       IF dst[2] = NaN THEN 0 ELSE dst[2] \div Sub >>

----------------------------------------------------------------------------
(* src/components/DocumentProcessor.tsx:36-153, the body of processDocument *)
(* after the await, as the list of its statements that touch a cv.Mat.      *)
(* "@work" stands for the Mat the variable `work` refers to.                *)

Ins(op, buf, uses, stage, args) ==
    [op |-> op, buf |-> buf, uses |-> uses, stage |-> stage, args |-> args]

WarpPrefix ==
    << Ins("callnew", "src", {}, "", <<>>),                          \* cv.imread
       Ins("callnew", "srcPoints", {}, "", <<>>),                    \* cv.matFromArray
       Ins("callnew", "dstPoints", {}, "", <<>>),                    \* cv.matFromArray
       Ins("callnew", "M", {"srcPoints", "dstPoints"}, "", <<>>),    \* cv.getPerspectiveTransform
       Ins("new", "work", {}, "", <<>>),
       Ins("call", "", {"src", "work", "M"}, "warp", <<>>),          \* cv.warpPerspective
       Ins("delete", "src", {}, "", <<>>),
       Ins("delete", "srcPoints", {}, "", <<>>),
       Ins("delete", "dstPoints", {}, "", <<>>),
       Ins("delete", "M", {}, "", <<>>) >>

\* the contrast block without `work = contrastMat`
ContrastStage_noReassign ==
    << Ins("new", "contrastMat", {}, "", <<>>),
       Ins("call", "", {"@work", "contrastMat"}, "contrast", <<>>),
       Ins("delete", "@work", {}, "", <<>>) >>

ContrastStage ==
    << Ins("new", "contrastMat", {}, "", <<>>),
       Ins("call", "", {"@work", "contrastMat"}, "contrast", <<>>),  \* cv.convertScaleAbs
       Ins("delete", "@work", {}, "", <<>>),
       Ins("setwork", "contrastMat", {}, "", <<>>) >>

SharpenStage ==
    << Ins("new", "blurred", {}, "", <<>>),
       Ins("call", "", {"@work", "blurred"}, "", <<>>),              \* cv.GaussianBlur
       Ins("new", "sharpResult", {}, "", <<>>),
       Ins("call", "", {"@work", "blurred", "sharpResult"}, "sharpen", <<>>),  \* cv.addWeighted
       Ins("delete", "blurred", {}, "", <<>>),
       Ins("delete", "@work", {}, "", <<>>),
       Ins("setwork", "sharpResult", {}, "", <<>>) >>

binParams(level) ==
    CASE level = "light" -> <<31, 5>>
      [] level = "medium" -> <<21, 8>>
      [] level = "strong" -> <<11, 10>>

BinarizeStage(level) ==
    << Ins("new", "gray", {}, "", <<>>),
       Ins("call", "", {"@work", "gray"}, "", <<>>),                 \* cv.cvtColor
       Ins("new", "binary", {}, "", <<>>),
       Ins("call", "", {"gray", "binary"}, "binarize", binParams(level)),  \* cv.adaptiveThreshold
       Ins("new", "rgba", {}, "", <<>>),
       Ins("call", "", {"binary", "rgba"}, "", <<>>),                \* cv.cvtColor
       Ins("delete", "gray", {}, "", <<>>),
       Ins("delete", "binary", {}, "", <<>>),
       Ins("delete", "@work", {}, "", <<>>),
       Ins("setwork", "rgba", {}, "", <<>>) >>

RenderStage ==
    << Ins("call", "", {"@work"}, "render", <<>>),                   \* cv.imshow
       Ins("call", "", {}, "", <<>>),                                \* canvas.toDataURL
       Ins("result", "", {}, "", <<>>) >>                            \* setResultUrl(url)

\* the inner try with the binarize block placed before the sharpen block
InnerTry_binarizeFirst(sharpness, binarize) ==
    ContrastStage
      \o (IF binarize # "off" THEN BinarizeStage(binarize) ELSE <<>>)
      \o (IF sharpness > 0 THEN SharpenStage ELSE <<>>)
      \o RenderStage

InnerTry(sharpness, binarize) ==
    ContrastStage
      \o (IF sharpness > 0 THEN SharpenStage ELSE <<>>)
      \o (IF binarize # "off" THEN BinarizeStage(binarize) ELSE <<>>)
      \o RenderStage

InnerFinally == Ins("delete", "@work", {}, "", <<>>)

IsCall(ins) == ins.op \in {"call", "callnew"}

RECURSIVE CountCalls(_)
CountCalls(prog) ==
    IF prog = <<>> THEN 0
    ELSE (IF IsCall(Head(prog)) THEN 1 ELSE 0) + CountCalls(Tail(prog))

NumCalls(sharpness, binarize) ==
    CountCalls(WarpPrefix) + CountCalls(InnerTry(sharpness, binarize))

InitExec ==
    [mats |-> InitMats, work |-> "work", thrown |-> FALSE, calls |-> 0,
     stages |-> <<>>, threshold |-> <<>>, url |-> FALSE, misuse |-> FALSE]

Target(e, name) == IF name = "@work" THEN e.work ELSE name

\* One statement.  The throwAt-th library call of the run throws.
ExecStep(e, ins, throwAt) ==
    LET used == {Target(e, n) : n \in ins.uses}
        stale == \E b \in used : e.mats[b] # "live"
        n == e.calls + 1
    IN  CASE ins.op = "new" ->
               [e EXCEPT !.mats[ins.buf] = "live"]
          [] ins.op = "callnew" ->
               IF n = throwAt
               THEN [e EXCEPT !.calls = n, !.thrown = TRUE, !.misuse = @ \/ stale]
               ELSE [e EXCEPT !.calls = n, !.mats[ins.buf] = "live", !.misuse = @ \/ stale]
          [] ins.op = "call" ->
               IF n = throwAt
               THEN [e EXCEPT !.calls = n, !.thrown = TRUE, !.misuse = @ \/ stale]
               ELSE [e EXCEPT !.calls = n,
                              !.misuse = @ \/ stale,
                              !.stages = IF ins.stage # "" THEN Append(@, ins.stage) ELSE @,
                              !.threshold = IF ins.args # <<>> THEN ins.args ELSE @]
          [] ins.op = "delete" ->
               IF e.mats[Target(e, ins.buf)] = "live"
               THEN [e EXCEPT !.mats[Target(e, ins.buf)] = "deleted"]
               ELSE [e EXCEPT !.misuse = TRUE, !.thrown = TRUE]
          [] ins.op = "setwork" ->
               [e EXCEPT !.work = ins.buf]
          [] ins.op = "result" ->
               [e EXCEPT !.url = TRUE]

\* statements in sequence; a throw skips the rest
RECURSIVE ExecSeq(_, _, _)
ExecSeq(e, prog, throwAt) ==
    IF prog = <<>> \/ e.thrown THEN e
    ELSE ExecSeq(ExecStep(e, Head(prog), throwAt), Tail(prog), throwAt)

\* try { ... } finally { work.delete() }: the finally block runs whether or
\* not the try block threw
TryFinally(e, body, fin, throwAt) ==
    LET b == ExecSeq(e, body, throwAt)
        f == ExecStep([b EXCEPT !.thrown = FALSE], fin, throwAt)
    IN  [f EXCEPT !.thrown = b.thrown \/ f.thrown]

\* lines 36-153: the statements before the inner try are not covered by its finally
PipelineBody(sharpness, binarize, throwAt) ==
    LET pre == ExecSeq(InitExec, WarpPrefix, throwAt)
    IN  IF pre.thrown THEN pre
        ELSE TryFinally(pre, InnerTry(sharpness, binarize), InnerFinally, throwAt)

----------------------------------------------------------------------------
(* Actions *)

StartKinds == [old : BOOLEAN, fallback : BOOLEAN]
ContrastValues == {100, 200}
SharpnessValues == {0, 50}
BinarizeLevels == {"off", "light", "medium", "strong"}

Init ==
    /\ home = InitHome
    /\ input = InitInput
    /\ video = InitVideo
    /\ proc = InitProc
    /\ pending = <<>>
    /\ revoked = [u \in 1..MaxUrls |-> 0]
    /\ created = 0
    /\ decodes = {}
    /\ blobs = 0
    /\ starts = [k \in StartKinds |-> 0]
    /\ tracks = <<>>
    /\ timers = {}
    /\ runs = {}
    /\ cv = InitCv
    /\ mats = InitMats
    /\ failed = {}
    /\ editor = InitEditor(<<>>)
    /\ layout = NoBox
    /\ moves = 0
    /\ held = {}

\* a click or change handler returns: its updates are rendered at once
Flush(st0, batch, vid, tm, ss, rs) == Commit(st0, Append(pending, batch), vid, tm, ss, rs)

\* a callback outside React's event dispatch: its updates wait for a render
Enqueue(batch) ==
    /\ Len(pending) < MaxPending
    /\ pending' = Append(pending, batch)

\* the scheduled render of batched updates
Render ==
    /\ pending # <<>>
    /\ Commit(Committed, pending, video, timers, starts, runs)
    /\ UNCHANGED <<created, decodes, blobs, tracks, cv, mats, failed, moves, held>>

(* ImageInput.tsx:210-237  handleGalleryChange -> processFile(file) *)
processFile(file) ==
    /\ InputMounted(home)
    /\ IF ~IsImageType(file.type)
       THEN /\ Flush(Committed, [k |-> "handleError", message |-> MsgInvalidType],
                     video, timers, starts, runs)
            /\ UNCHANGED <<created, decodes>>
       ELSE /\ created < MaxUrls
            /\ Cardinality(decodes) < MaxDecodes
            /\ created' = created + 1
            /\ decodes' = decodes \cup {[url |-> created + 1, ok |-> file.decodable,
                                         width |-> file.width, height |-> file.height]}
            /\ UNCHANGED <<home, input, video, proc, pending, revoked, timers, starts, runs, editor, layout>>
    /\ UNCHANGED <<blobs, tracks, cv, mats, failed, moves, held>>

(* ImageInput.tsx:218-220  img.onload = () => onImageSelect(url, img) *)
ImageOnLoad(d) ==
    /\ d \in decodes
    /\ d.ok
    /\ decodes' = decodes \ {d}
    /\ Enqueue([k |-> "handleImageSelect", url |-> d.url,
                width |-> d.width, height |-> d.height])
    /\ UNCHANGED <<home, input, video, proc, revoked, created, blobs, starts,
                   tracks, timers, runs, cv, mats, failed, editor, layout, moves, held>>

\* img.onerror without URL.revokeObjectURL(url)
OnErrorRevoke_leak(rv, url) == rv

(* ImageInput.tsx:221-224  img.onerror: onError, then revokeObjectURL(url) *)
OnErrorRevoke(rv, url) == RevokeObjectURL(rv, url)

ImageOnError(d) ==
    /\ d \in decodes
    /\ ~d.ok
    /\ decodes' = decodes \ {d}
    /\ Enqueue([k |-> "handleError", message |-> MsgDecodeError])
    /\ revoked' = OnErrorRevoke(revoked, d.url)
    /\ failed' = failed \cup {d.url}
    /\ UNCHANGED <<home, input, video, proc, created, blobs, starts,
                   tracks, timers, runs, cv, mats, editor, layout, moves, held>>

(* page.tsx:35-44  the revocation handleNewImage does with the imageUrl it closed over *)
RevokeCurrent(rv, imageUrl) ==
    IF imageUrl # NoUrl /\ IsBlobUrl(imageUrl) THEN RevokeObjectURL(rv, imageUrl) ELSE rv

handleNewImage ==
    /\ home.imageUrl # NoUrl             \* the button is rendered with an image only
    /\ Flush([Committed EXCEPT !.revoked = RevokeCurrent(@, home.imageUrl)],
             [k |-> "handleNewImage"], video, timers, starts, runs)
    /\ UNCHANGED <<created, decodes, blobs, tracks, cv, mats, failed, moves, held>>

(* DocumentProcessor.tsx:27-33  processDocument up to `await getOpenCV()` *)
processDocument ==
    /\ ProcessorMounted(home)
    /\ ~proc.isProcessing                \* disabled={isProcessing}
    /\ Cardinality(runs) < MaxRuns
    /\ cv' = getOpenCV(cv)
    /\ Flush(Committed, [k |-> "processStart"], video, timers, starts,
             runs \cup {[old |-> FALSE,
                         imageElement |-> home.imageElement,
                         corners |-> home.corners,
                         contrast |-> proc.contrast,
                         sharpness |-> proc.sharpness,
                         binarize |-> proc.binarize,
                         promise |-> cv'.cvPromise]})
    /\ UNCHANGED <<created, decodes, blobs, tracks, mats, failed, moves, held>>

(* the promise loadOpenCV returned settles *)
LoadSettles(p, outcome) ==
    /\ p \in DOMAIN cv.settled
    /\ cv.settled[p] = "pending"
    /\ cv' = [cv EXCEPT !.settled[p] = outcome]
    /\ UNCHANGED <<home, input, video, proc, pending, revoked, created, decodes,
                   blobs, starts, tracks, timers, runs, mats, failed, editor, layout, moves, held>>

(* DocumentProcessor.tsx:33-161  the continuation of a run after the await *)
processDocumentResume(run, throwAt) ==
    /\ run \in runs
    /\ cv.settled[run.promise] # "pending"
    /\ runs' = runs \ {run}
    /\ IF cv.settled[run.promise] = "rejected"
       THEN /\ throwAt = 0
            /\ mats' = InitMats
            /\ Enqueue([k |-> "processEnd", old |-> run.old, resultSet |-> FALSE,
                        url |-> <<>>, thrown |-> TRUE, message |-> MsgLibraryInit,
                        misuse |-> FALSE])
       ELSE LET e == PipelineBody(run.sharpness, run.binarize, throwAt)
            IN  /\ throwAt <= NumCalls(run.sharpness, run.binarize)
                /\ mats' = e.mats
                /\ Enqueue([k |-> "processEnd", old |-> run.old,
                            resultSet |-> e.url,
                            url |-> <<[image |-> run.imageElement,
                                       corners |-> run.corners,
                                       contrast |-> run.contrast,
                                       sharpness |-> run.sharpness,
                                       binarize |-> run.binarize,
                                       dstPoints |-> dstPoints(dstSize(run.corners)),
                                       size |-> CanvasSize(dstSize(run.corners)),
                                       stages |-> e.stages,
                                       threshold |-> e.threshold]>>,
                            thrown |-> e.thrown, message |-> MsgProcessing,
                            misuse |-> e.misuse])
    /\ UNCHANGED <<home, input, video, proc, revoked, created, decodes, blobs,
                   starts, tracks, timers, cv, failed, editor, layout, moves, held>>

(* DocumentProcessor.tsx:179-221  the three controls *)
SetContrast(v) ==
    /\ ProcessorMounted(home)
    /\ v # proc.contrast
    /\ Flush(Committed, [k |-> "setContrast", value |-> v], video, timers, starts, runs)
    /\ UNCHANGED <<created, decodes, blobs, tracks, cv, mats, failed, moves, held>>

SetSharpness(v) ==
    /\ ProcessorMounted(home)
    /\ v # proc.sharpness
    /\ Flush(Committed, [k |-> "setSharpness", value |-> v], video, timers, starts, runs)
    /\ UNCHANGED <<created, decodes, blobs, tracks, cv, mats, failed, moves, held>>

SetBinarize(level) ==
    /\ ProcessorMounted(home)
    /\ level # proc.binarize
    /\ Flush(Committed, [k |-> "setBinarize", value |-> level], video, timers, starts, runs)
    /\ UNCHANGED <<created, decodes, blobs, tracks, cv, mats, failed, moves, held>>

----------------------------------------------------------------------------
(* Corner editor: CornerEditor.tsx:86-186 *)

CornerIndices == 1..4

\* the markers the drags of the editor sessions start on: top-left, bottom-right
DraggedCorners == {1, 3}

\* pointer positions relative to the image's box (e.clientX - imgRect.left,
\* e.clientY - imgRect.top), in CSS pixels: far outside above and to the
\* left, on the left edge, far outside to the right
PointerPositions == {<<0 - 5000, 0 - 5000>>, <<0, 7>>, <<5000, 5>>}

(* :92-102  the browser lays the <img> out anew; the ResizeObserver calls    *)
(* updateScale, whose closure holds the image size of the committed render  *)
Layout(box) ==
    /\ EditorMounted(home)
    /\ box \in Boxes(home.imageSize)
    /\ box # layout
    /\ layout' = box
    /\ Enqueue([k |-> "setScale", scale |-> updateScale(home.imageSize, box)])
    /\ UNCHANGED <<home, input, video, proc, revoked, created, decodes, blobs, starts,
                   tracks, timers, runs, cv, mats, failed, editor, moves, held>>

(* :123-146  handlePointerDown(e, index) *)
handlePointerDown(index) ==
    /\ EditorMounted(home)
    /\ index # editor.activeIndex        \* another pointer may press a second marker
    /\ Flush([Committed EXCEPT !.editor.dragStartRef = index],
             [k |-> "pointerDown", index |-> index], video, timers, starts, runs)
    /\ held' = held \cup {index}
    /\ UNCHANGED <<created, decodes, blobs, tracks, cv, mats, failed, moves>>

\* newCorners = [...displayCorners]; newCorners[activeIndex] = newPoint
ReplaceCorner(displayCorners, activeIndex, newPoint) ==
    [displayCorners EXCEPT ![activeIndex] = newPoint]

(* :148-174  handlePointerMove(e), with the pointer at `p` *)
handlePointerMove(p) ==
    LET newPoint == toImageCoords(p[1], p[2], editor.scale,
                                  home.imageSize[1], home.imageSize[2])
        newCorners == ReplaceCorner(editor.displayCorners, editor.activeIndex, newPoint)
    IN  /\ EditorMounted(home)
        /\ IF editor.dragStartRef = 0 \/ editor.activeIndex = 0
           THEN UNCHANGED <<pending, editor, moves>>      \* :150  return
           ELSE /\ moves < MaxMoves
                /\ moves' = moves + 1
                /\ Enqueue([k |-> "pointerMove", corners |-> newCorners])
                /\ editor' = [editor EXCEPT !.dragStartRef = editor.activeIndex]
        /\ UNCHANGED <<home, input, video, proc, revoked, created, decodes, blobs,
                       starts, tracks, timers, runs, cv, mats, failed, layout, held>>

(* :176-180  handlePointerUp, also bound to pointerleave *)
handlePointerUp ==
    /\ EditorMounted(home)
    /\ editor.activeIndex # 0
    /\ Flush([Committed EXCEPT !.editor.dragStartRef = 0], [k |-> "pointerUp"],
             video, timers, starts, runs)
    /\ held' = {}
    /\ UNCHANGED <<created, decodes, blobs, tracks, cv, mats, failed, moves>>

(* :182-186  handleReset *)
handleReset ==
    /\ EditorMounted(home)
    /\ Flush(Committed,
             [k |-> "reset",
              corners |-> getDefaultCorners(home.imageSize[1], home.imageSize[2])],
             video, timers, starts, runs)
    /\ UNCHANGED <<created, decodes, blobs, tracks, cv, mats, failed, moves, held>>

----------------------------------------------------------------------------
(* Camera: ImageInput.tsx:248-341 *)

InFlight(ss) ==
    ss[[old |-> FALSE, fallback |-> FALSE]] + ss[[old |-> FALSE, fallback |-> TRUE]]
      + ss[[old |-> TRUE, fallback |-> FALSE]] + ss[[old |-> TRUE, fallback |-> TRUE]]

(* :248-256  startCamera up to the first await *)
startCamera ==
    /\ InputMounted(home)
    /\ ~input.isCameraMode               \* the start button is rendered
    /\ InFlight(starts) < MaxStarts
    /\ Flush(Committed, [k |-> "startCamera"], video, timers,
             [starts EXCEPT ![[old |-> FALSE, fallback |-> FALSE]] = @ + 1], runs)
    /\ UNCHANGED <<created, decodes, blobs, tracks, cv, mats, failed, moves, held>>

(* :257-261 and :275-280  a getUserMedia promise rejects *)
GetUserMediaRejected(k) ==
    /\ k \in StartKinds
    /\ starts[k] > 0
    /\ IF ~k.fallback
       THEN /\ starts' = [starts EXCEPT ![k] = @ - 1,
                                        ![[k EXCEPT !.fallback = TRUE]] = @ + 1]
            /\ UNCHANGED pending
       ELSE /\ starts' = [starts EXCEPT ![k] = @ - 1]
            /\ Enqueue([k |-> "cameraFailed", old |-> k.old, message |-> MsgCameraAccess])
    /\ UNCHANGED <<home, input, video, proc, revoked, created, decodes, blobs,
                   tracks, timers, runs, cv, mats, failed, editor, layout, moves, held>>

(* :262-274  a getUserMedia promise resolves with a new stream *)
GetUserMediaResolved(k) ==
    LET stream == Len(tracks) + 1
        hasVideo == VideoMounted(home, input)         \* videoRef.current
    IN  /\ k \in StartKinds
        /\ starts[k] > 0
        /\ Len(tracks) < MaxStreams
        /\ starts' = [starts EXCEPT ![k] = @ - 1]
        /\ tracks' = Append(tracks, TRUE)
        /\ IF k.old
           THEN UNCHANGED <<input, video, timers, pending>>
           ELSE /\ input' = [input EXCEPT
                                !.streamRef = stream,
                                !.readyTimeoutRef = IF hasVideo THEN stream ELSE @]
                \* video.readyState is HAVE_NOTHING right after srcObject is
                \* assigned, so onReady is not called synchronously
                /\ video' = IF hasVideo
                            THEN [srcObject |-> stream, onloadedmetadata |-> TRUE,
                                  loaded |-> FALSE]
                            ELSE video
                /\ timers' = IF hasVideo THEN timers \cup {stream} ELSE timers
                /\ Enqueue([k |-> "cameraStarted"])
        /\ UNCHANGED <<home, proc, revoked, created, decodes, blobs, runs, cv, mats, failed, editor, layout, moves, held>>

(* :266-270  the video element reports loadedmetadata: onReady *)
LoadedMetadata ==
    /\ VideoMounted(home, input)
    /\ video.srcObject # NoStream
    /\ tracks[video.srcObject]
    /\ ~video.loaded
    /\ video.onloadedmetadata
    /\ video' = [video EXCEPT !.loaded = TRUE]
    /\ Enqueue([k |-> "videoReady"])
    /\ UNCHANGED <<home, input, proc, revoked, created, decodes, blobs, starts,
                   tracks, timers, runs, cv, mats, failed, editor, layout, moves, held>>

(* :272  the readiness timeout fires *)
ReadyTimeout(t) ==
    /\ t \in timers
    /\ timers' = timers \ {t}
    /\ Enqueue([k |-> "videoReady"])
    /\ UNCHANGED <<home, input, video, proc, revoked, created, decodes, blobs,
                   starts, tracks, runs, cv, mats, failed, editor, layout, moves, held>>

(* :283-295  what stopCamera does to the refs, the stream and the video element *)
StopCameraRefs(c) ==
    [input |-> [c.input EXCEPT !.readyTimeoutRef = NoTimer, !.streamRef = NoStream],
     timers |-> IF c.input.readyTimeoutRef # NoTimer
                THEN c.timers \ {c.input.readyTimeoutRef} ELSE c.timers,
     tracks |-> IF c.input.streamRef # NoStream
                THEN [c.tracks EXCEPT ![c.input.streamRef] = FALSE] ELSE c.tracks,
     video |-> IF c.hasVideo
               THEN [c.video EXCEPT !.onloadedmetadata = FALSE, !.srcObject = NoStream]
               ELSE c.video]

Camera ==
    [input |-> input, timers |-> timers, tracks |-> tracks, video |-> video,
     hasVideo |-> VideoMounted(home, input)]

stopCamera ==
    LET c == StopCameraRefs(Camera)
    IN  /\ VideoMounted(home, input)     \* the cancel button is rendered
        /\ tracks' = c.tracks
        /\ Flush([Committed EXCEPT !.input = c.input], [k |-> "stopCamera"],
                 c.video, c.timers, starts, runs)
        /\ UNCHANGED <<created, decodes, blobs, cv, mats, failed, moves, held>>

(* capturePhoto without the second `if (width === 0 || height === 0)` return *)
capturePhoto_noSizeCheck(settings) ==
    LET c == StopCameraRefs(Camera)
    IN  /\ VideoMounted(home, input)
        /\ input.isVideoReady
        /\ input.streamRef # NoStream
        /\ blobs < MaxBlobs
        /\ blobs' = blobs + 1
        /\ tracks' = c.tracks
        /\ Flush([Committed EXCEPT !.input = c.input], [k |-> "stopCamera"],
                 c.video, c.timers, starts, runs)
        /\ UNCHANGED <<created, decodes, cv, mats, failed, moves, held>>

(* :301-341  capturePhoto; `settings` tells whether track.getSettings() has a size *)
capturePhoto(settings) ==
    LET videoWidth == IF video.loaded /\ video.srcObject # NoStream THEN CameraWidth ELSE 0
        videoHeight == IF video.loaded /\ video.srcObject # NoStream THEN CameraHeight ELSE 0
        useSettings == (videoWidth = 0 \/ videoHeight = 0) /\ settings
        width == IF useSettings THEN CameraWidth ELSE videoWidth
        height == IF useSettings THEN CameraHeight ELSE videoHeight
        c == StopCameraRefs(Camera)
    IN  /\ VideoMounted(home, input)
        /\ input.isVideoReady            \* disabled={!isVideoReady}
        /\ input.streamRef # NoStream
        /\ IF width = 0 \/ height = 0
           THEN /\ Flush(Committed, [k |-> "handleError", message |-> MsgCameraNotReady],
                         video, timers, starts, runs)
                /\ UNCHANGED <<blobs, tracks>>
           ELSE /\ blobs < MaxBlobs
                /\ blobs' = blobs + 1
                /\ tracks' = c.tracks
                /\ Flush([Committed EXCEPT !.input = c.input], [k |-> "stopCamera"],
                         c.video, c.timers, starts, runs)
        /\ UNCHANGED <<created, decodes, cv, mats, failed, moves, held>>

(* :329-338  the toBlob callback: processFile(new File([blob], ..., image/jpeg)) *)
BlobCallback(hasBlob) ==
    /\ blobs > 0
    /\ blobs' = blobs - 1
    /\ IF hasBlob
       THEN /\ created < MaxUrls
            /\ Cardinality(decodes) < MaxDecodes
            /\ created' = created + 1
            /\ decodes' = decodes \cup {[url |-> created + 1, ok |-> TRUE,
                                         width |-> CameraWidth, height |-> CameraHeight]}
       ELSE UNCHANGED <<created, decodes>>
    /\ UNCHANGED <<home, input, video, proc, pending, revoked, starts, tracks,
                   timers, runs, cv, mats, failed, editor, layout, moves, held>>

----------------------------------------------------------------------------

\* the file of the pipeline sessions
GoodFile == [type |-> <<"image", "png">>, decodable |-> TRUE, width |-> 1000, height |-> 800]

\* the library calls made to throw in the session specifications:
\* none, cv.warpPerspective (the 5th call), cv.imshow (the last but one)
SessionThrows == {0, 5, 10}

SessionNext ==
    \/ Render
    \/ \E f \in Files : processFile(f)
    \/ \E d \in decodes : ImageOnLoad(d)
    \/ \E d \in decodes : ImageOnError(d)
    \/ handleNewImage

RunNext(throws) ==
    \/ processDocument
    \/ \E p \in DOMAIN cv.settled, o \in {"fulfilled", "rejected"} : LoadSettles(p, o)
    \/ \E r \in runs, t \in throws : processDocumentResume(r, t)

ControlsNext ==
    \/ \E v \in ContrastValues : SetContrast(v)
    \/ \E v \in SharpnessValues : SetSharpness(v)
    \/ \E l \in BinarizeLevels : SetBinarize(l)

CameraNext ==
    \/ startCamera
    \/ \E k \in StartKinds : GetUserMediaRejected(k)
    \/ \E k \in StartKinds : GetUserMediaResolved(k)
    \/ LoadedMetadata
    \/ \E t \in timers : ReadyTimeout(t)
    \/ stopCamera
    \/ \E s \in BOOLEAN : capturePhoto(s)
    \/ \E b \in BOOLEAN : BlobCallback(b)

\* the session with the file picker and the pipeline at its default settings
Next == SessionNext \/ RunNext(SessionThrows)

Spec == Init /\ [][Next]_vars

\* one image, every setting of the controls, a throw at every library call
PipelineNext ==
    \/ Render
    \/ (created = 0 /\ processFile(GoodFile))
    \/ \E d \in decodes : ImageOnLoad(d)
    \/ RunNext(0..13)
    \/ ControlsNext

SpecPipeline == Init /\ [][PipelineNext]_vars

\* the camera, with captures loaded into the session
CameraSessionNext ==
    \/ Render
    \/ \E d \in decodes : ImageOnLoad(d)
    \/ handleNewImage
    \/ CameraNext

SpecCamera == Init /\ [][CameraSessionNext]_vars

EditorNext ==
    \/ \E box \in (IF EditorMounted(home) THEN Boxes(home.imageSize) ELSE {}) : Layout(box)
    \/ \E i \in DraggedCorners : handlePointerDown(i)
    \/ \E p \in PointerPositions : handlePointerMove(p)
    \/ handlePointerUp
    \/ handleReset

\* the files picked in the editor sessions: a large one, then a small one
EditorFiles ==
    << [type |-> <<"image", "png">>, decodable |-> TRUE, width |-> 1000, height |-> 800],
       [type |-> <<"image", "jpeg">>, decodable |-> TRUE, width |-> 40, height |-> 20] >>

\* the session with the corner editor: images from the file picker, drags, resets
EditorSessionNext ==
    \/ Render
    \/ (created < Len(EditorFiles) /\ processFile(EditorFiles[created + 1]))
    \/ \E d \in decodes : ImageOnLoad(d)
    \/ EditorNext

SpecEditor == Init /\ [][EditorSessionNext]_vars

\* natural sizes of the image of the sized sessions: the smallest images,
\* one whose 5% margin is a fraction of a pixel, and a large one
Sizes == ((1..MaxSide) \X (1..MaxSide)) \cup {<<33, 21>>, <<1000, 800>>}

\* the state after processFile(file) for a decodable file of a size in Sizes
InitSized ==
    /\ home = InitHome
    /\ input = InitInput
    /\ video = InitVideo
    /\ proc = InitProc
    /\ pending = <<>>
    /\ revoked = [u \in 1..MaxUrls |-> 0]
    /\ created = 1
    /\ \E size \in Sizes :
          decodes = {[url |-> 1, ok |-> TRUE, width |-> size[1], height |-> size[2]]}
    /\ blobs = 0
    /\ starts = [k \in StartKinds |-> 0]
    /\ tracks = <<>>
    /\ timers = {}
    /\ runs = {}
    /\ cv = InitCv
    /\ mats = InitMats
    /\ failed = {}
    /\ editor = InitEditor(<<>>)
    /\ layout = NoBox
    /\ moves = 0
    /\ held = {}

\* one image of any of these sizes, loaded, laid out and reset
SizedNext ==
    \/ Render
    \/ \E d \in decodes : ImageOnLoad(d)
    \/ \E box \in (IF EditorMounted(home) THEN Boxes(home.imageSize) ELSE {}) : Layout(box)
    \/ handleReset

SpecSizes == InitSized /\ [][SizedNext]_vars

\* the file of the geometry sessions: its default margin is 1.05 pixel
SkewFile == [type |-> <<"image", "png">>, decodable |-> TRUE, width |-> 33, height |-> 21]

\* one image, whose <img> gets its box once: drags, resets and runs in which
\* no library call throws
GeometryNext ==
    \/ Render
    \/ (created = 0 /\ processFile(SkewFile))
    \/ \E d \in decodes : ImageOnLoad(d)
    \/ \E box \in (IF EditorMounted(home) THEN Boxes(home.imageSize) \ {NoBox} ELSE {}) :
          Layout(box)
    \/ \E i \in DraggedCorners : handlePointerDown(i)
    \/ \E p \in PointerPositions : handlePointerMove(p)
    \/ handlePointerUp
    \/ handleReset
    \/ processDocument
    \/ \E p \in DOMAIN cv.settled : LoadSettles(p, "fulfilled")
    \/ \E r \in runs : processDocumentResume(r, 0)

SpecGeometry == Init /\ [][GeometryNext]_vars

----------------------------------------------------------------------------
(* Claims *)

\* object URLs still referenced by something in flight: a decoding Image or
\* a batched handleImageSelect
DecodingUrls == {d.url : d \in decodes}
QueuedUrls == {pending[i].url : i \in {j \in DOMAIN pending : pending[j].k = "handleImageSelect"}}

\* C1: when a processDocument run has settled, none of the buffers it
\* allocated (src, srcPoints, dstPoints, M, work, contrastMat, blurred,
\* sharpResult, gray, binary, rgba) is still unreleased, whichever library
\* call threw.
C1_AllBuffersReleased == \A b \in BufferNames : mats[b] # "live"

\* C2: every object URL that has been the session's image URL is revoked
\* exactly once, when it is replaced or the session is reset: a URL that is
\* still loading, queued or displayed has not been revoked, every other
\* created URL has been revoked once and only once.
C2_RevokedExactlyOnce ==
    \A u \in 1..created :
        revoked[u] = IF u = home.imageUrl \/ u \in DecodingUrls \/ u \in QueuedUrls
                     THEN 0 ELSE 1

\* C3: the image URL, image element, image size and corner set are all
\* present or all absent in every session state, and whenever an acquisition
\* moves the session from Empty to Editing, the corners are the default
\* corners of the new image's natural size.
AllOrNone(h) ==
    \/ h.imageUrl = NoUrl /\ h.imageElement = <<>> /\ h.imageSize = <<>> /\ h.corners = <<>>
    \/ h.imageUrl # NoUrl /\ Len(h.imageElement) = 3 /\ Len(h.imageSize) = 2
         /\ Len(h.corners) = 4

SeededByAcquisition ==
    (home.imageUrl = NoUrl /\ home'.imageUrl # NoUrl)
      => /\ home'.imageElement[1] = home'.imageUrl
         /\ home'.imageSize = <<home'.imageElement[2], home'.imageElement[3]>>
         /\ home'.corners = getDefaultCorners(home'.imageElement[2], home'.imageElement[3])

C3_CornersSeeded == [](AllOrNone(home)) /\ [][SeededByAcquisition]_vars

\* an image loaded over a previous one of another size, with its own default corners
C3_Witness ==
    /\ home.imageUrl = 2
    /\ revoked[1] = 1
    /\ home.imageSize = <<1000, 800>>
    /\ home.corners = getDefaultCorners(1000, 800)

\* C4: whenever the session holds an error message (from an acquisition or
\* from the pipeline) the message is rendered in the state the session is in.
C4_ErrorVisible == home.error # "" => ErrorShown(home)

\* C5: a result is shown only if it is the result of a successful run on
\* the image that is currently loaded.
C5_ResultOfCurrentImage ==
    proc.resultUrl # <<>> => proc.resultUrl[1].image = home.imageElement

\* C6: handleNewImage always leads to Empty: image URL, image element, image
\* size, corners, error and the processed result are absent afterwards and
\* the object URL of the image has been revoked.
C6_NewImageResets ==
    [][handleNewImage =>
         /\ home' = InitHome
         /\ proc' = InitProc
         /\ ~ProcessorMounted(home')
         /\ revoked'[home.imageUrl] >= 1]_vars

\* Empty again, after an image was loaded and processed
C6_Witness ==
    /\ home = InitHome
    /\ proc.resultUrl = <<>>
    /\ mats["src"] = "deleted"
    /\ \E u \in 1..created : revoked[u] = 1 /\ u \notin failed

\* C7: while the camera is streaming and capture is still disabled, a
\* frame-available signal or the readiness timeout is outstanding, so that
\* capture becomes enabled.
ReadinessOutstanding ==
    \/ input.readyTimeoutRef \in timers
    \/ video.srcObject # NoStream /\ video.onloadedmetadata /\ ~video.loaded
    \/ \E i \in DOMAIN pending : pending[i].k = "videoReady"

C7_CaptureGetsEnabled ==
    (VideoMounted(home, input) /\ input.streamRef # NoStream /\ ~input.isVideoReady)
      => ReadinessOutstanding

\* C8: a stop of the camera, by cancel or by a successful capture, stops the
\* track of the held stream, clears the stream reference, resets camera mode
\* and readiness, and leaves no readiness timeout armed.
CameraStops == stopCamera \/ (\E s \in BOOLEAN : capturePhoto(s) /\ blobs' = blobs + 1)

C8_StopReleasesCamera ==
    [][CameraStops =>
         /\ input.streamRef # NoStream => ~tracks'[input.streamRef]
         /\ input'.streamRef = NoStream
         /\ ~input'.isCameraMode
         /\ ~input'.isVideoReady
         /\ timers' = {}]_vars

\* C9: a file that is not an image is rejected with InvalidType without an
\* object URL being created or an image being decoded; an image that fails
\* to decode reports DecodeError, its URL has been revoked exactly once and
\* it never becomes the session's image.
RejectsInvalidType ==
    \A f \in Files :
        (~IsImageType(f.type) /\ processFile(f))
          => /\ created' = created
             /\ decodes' = decodes
             /\ home'.error = MsgInvalidType
             /\ pending = <<>> => home' = [home EXCEPT !.error = MsgInvalidType]

ReportsDecodeError ==
    \A d \in decodes :
        ImageOnError(d)
          => /\ home' = home
             /\ pending'[Len(pending')] = [k |-> "handleError", message |-> MsgDecodeError]

FailedIsReleased ==
    \A u \in failed :
        /\ revoked[u] = 1
        /\ home.imageUrl # u
        /\ u \notin QueuedUrls

C9_FailedAcquisition ==
    [](FailedIsReleased) /\ [][RejectsInvalidType /\ ReportsDecodeError]_vars

\* a decode failure and a rejected file have both happened
C9_Witness == failed # {} /\ home.error = MsgInvalidType /\ home.imageUrl = NoUrl

\* C10: loadOpenCV is called at most once, and every processDocument run
\* waiting for the library waits for the one memoized promise.
C10_SingleInitialization ==
    /\ cv.loadCalls <= 1
    /\ \A r \in runs : r.promise # NoPromise /\ r.promise = cv.cvPromise

\* two runs wait for the initialization that is still in flight
C10_Witness ==
    /\ cv.cvPromise # NoPromise
    /\ cv.settled[cv.cvPromise] = "pending"
    /\ Cardinality(runs) = 2

\* C11: in every state with an image loaded, each of the four corners of
\* the session lies within [0, width] x [0, height] of that image, whatever
\* pointer positions the drags had and whatever scale the editor measured.
InBounds(pt, size) ==
    /\ 0 <= pt[1] /\ pt[1] <= Sub * size[1]
    /\ 0 <= pt[2] /\ pt[2] <= Sub * size[2]

C11_CornersWithinBounds ==
    home.imageUrl # NoUrl =>
        \A i \in CornerIndices : InBounds(home.corners[i], home.imageSize)

\* C12: the update a pointer move of a drag of corner i makes replaces only
\* entry i of the session's corner set: the corner set once the move's
\* update is applied has four entries and differs from the corner set
\* before it in entry i at most, also when earlier moves are still waiting
\* for the render.
CornersAfter(q) == Rendered(Committed, q).home.corners

C12_DragReplacesOneCorner ==
    [][\A p \in PointerPositions :
         handlePointerMove(p) =>
            /\ Len(CornersAfter(pending')) = 4
            /\ \A j \in CornerIndices \ {editor.activeIndex} :
                   CornersAfter(pending')[j] = CornersAfter(pending)[j]]_vars

\* C13: for every positive width and height the default corners are, in the
\* order top-left, top-right, bottom-right, bottom-left, the corners of an
\* axis-aligned rectangle inset from each edge of the image by
\* m = 0.05 * min(width, height); the four points are within the image and
\* the rectangle has positive area.
InsetRectangle(c, width, height) ==
    LET m == c[1][1]
    IN  /\ Len(c) = 4
        /\ 20 * m = Sub * Min(width, height)
        /\ c[1] = <<m, m>>
        /\ c[2][1] = Sub * width - m /\ c[2][2] = c[1][2]
        /\ c[3][1] = c[2][1] /\ c[3][2] = Sub * height - m
        /\ c[4][1] = c[1][1] /\ c[4][2] = c[3][2]
        /\ \A i \in CornerIndices : InBounds(c[i], <<width, height>>)
        /\ c[2][1] - c[1][1] > 0 /\ c[4][2] - c[1][2] > 0

C13_DefaultCornersRectangle ==
    EditorMounted(home) =>
        InsetRectangle(home.corners, home.imageSize[1], home.imageSize[2])

\* the default corners of a tall 1 x 4 image and of a wide 4 x 1 image are in place
C13_Witness ==
    /\ EditorMounted(home)
    /\ home.imageSize \in {<<1, 4>>, <<4, 1>>}
    /\ home.corners = getDefaultCorners(home.imageSize[1], home.imageSize[2])
    /\ pending = <<>>

\* C14: the reset action sets the editor's local corners and the session's
\* corner set to getDefaultCorners of the width and height of the image
\* that is loaded once the reset is done, whatever drags came before; a
\* second reset changes nothing.
DefaultsOfLoadedImage(h, e) ==
    /\ h.corners = getDefaultCorners(h.imageSize[1], h.imageSize[2])
    /\ e.displayCorners = h.corners

C14_ResetRestoresDefaults ==
    [][handleReset =>
         /\ DefaultsOfLoadedImage(home', editor')
         /\ LET again == Rendered([home |-> home', input |-> input', proc |-> proc',
                                    editor |-> editor', revoked |-> revoked'],
                                   pending' \o
                                     <<[k |-> "reset",
                                        corners |-> getDefaultCorners(home'.imageSize[1],
                                                                      home'.imageSize[2])]>>)
            IN  again.home = home' /\ again.editor.displayCorners = editor'.displayCorners]_vars

\* C15: every run applies its stages in the order warp, contrast, sharpen,
\* binarize, render: a run that sets a result has run warp and contrast,
\* sharpen exactly if its sharpness > 0, binarize exactly if its binarize
\* level is not off (with block size and constant (31, 5) for light,
\* (21, 8) for medium, (11, 10) for strong), then render; a run that throws
\* has run a prefix of that order.
ExpectedStages(sharpness, binarize) ==
    <<"warp", "contrast">>
      \o (IF sharpness > 0 THEN <<"sharpen">> ELSE <<>>)
      \o (IF binarize # "off" THEN <<"binarize">> ELSE <<>>)
      \o <<"render">>

ExpectedThreshold(binarize) ==
    CASE binarize = "off" -> <<>>
      [] binarize = "light" -> <<31, 5>>
      [] binarize = "medium" -> <<21, 8>>
      [] binarize = "strong" -> <<11, 10>>

IsPrefix(a, b) == Len(a) <= Len(b) /\ a = SubSeq(b, 1, Len(a))

\* the runs that have settled and whose updates wait for the render
SettledRuns == {i \in DOMAIN pending : pending[i].k = "processEnd" /\ pending[i].url # <<>>}

InStageOrder(res) ==
    /\ res.stages = ExpectedStages(res.sharpness, res.binarize)
    /\ res.threshold = ExpectedThreshold(res.binarize)

C15_StageOrder ==
    /\ \A i \in SettledRuns :
          LET res == pending[i].url[1]
          IN  /\ IsPrefix(res.stages, ExpectedStages(res.sharpness, res.binarize))
              /\ ~pending[i].thrown => pending[i].resultSet
              /\ pending[i].resultSet => InStageOrder(res)
    /\ proc.resultUrl # <<>> => InStageOrder(proc.resultUrl[1])

\* a result of a run with every stage, at the strong level
C15_Witness ==
    /\ proc.resultUrl # <<>>
    /\ proc.resultUrl[1].stages = <<"warp", "contrast", "sharpen", "binarize", "render">>
    /\ proc.resultUrl[1].threshold = <<11, 10>>

\* the results of the runs that have set one: those waiting for the render
\* and the one shown
Results ==
    {pending[i].url[1] : i \in {j \in SettledRuns : pending[j].resultSet}}
      \cup (IF proc.resultUrl # <<>> THEN {proc.resultUrl[1]} ELSE {})

SqDist(p, q) == (q[1] - p[1]) * (q[1] - p[1]) + (q[2] - p[2]) * (q[2] - p[2])

HasNaN(points) == \E pt \in points : pt[1] = NaN \/ pt[2] = NaN

\* len is the larger of the distances |q1 - p1| and |q2 - p2|, to 1/20 pixel
IsLongerEdge(len, p1, q1, p2, q2) ==
    IF HasNaN({p1, q1, p2, q2}) THEN len = NaN
    ELSE LET sq == Max(SqDist(p1, q1), SqDist(p2, q2))
         IN  len >= 0 /\ len * len <= sq /\ sq < (len + 1) * (len + 1)

\* the corners of a rectangle with sides parallel to the image's, in the
\* order top-left, top-right, bottom-right, bottom-left
AxisAligned(c) ==
    /\ ~HasNaN({c[1], c[2], c[3], c[4]})
    /\ c[1][2] = c[2][2] /\ c[4][2] = c[3][2]
    /\ c[1][1] = c[4][1] /\ c[2][1] = c[3][1]
    /\ c[2][1] > c[1][1] /\ c[4][2] > c[1][2]

\* the destination size and points of a result are those of the corners its
\* run was started with
DestinationOf(res) ==
    LET c == res.corners
        w == res.dstPoints[3][1]
        h == res.dstPoints[3][2]
    IN  /\ IsLongerEdge(w, c[1], c[2], c[4], c[3])
        /\ IsLongerEdge(h, c[1], c[4], c[2], c[3])
        /\ res.dstPoints = << <<0, 0>>, <<w, 0>>, <<w, h>>, <<0, h>> >>

\* C16 as claimed: the destination size of a run is width = max(|TR-TL|,
\* |BR-BL|), height = max(|BL-TL|, |BR-TR|) of the corners the run was
\* started with, the destination points are (0,0), (w,0), (w,h), (0,h), and
\* for corners forming an axis-aligned a x b rectangle the output is a wide
\* and b high.
C16_OutputIsRectangleSize ==
    \A res \in Results :
        /\ DestinationOf(res)
        /\ AxisAligned(res.corners) =>
              /\ Sub * res.size[1] = res.corners[2][1] - res.corners[1][1]
              /\ Sub * res.size[2] = res.corners[4][2] - res.corners[1][2]

\* C16 as amended: as above, but for an axis-aligned a x b rectangle the
\* destination size is a x b and the output raster is a and b truncated to
\* whole pixels.
C16_DestinationSize ==
    \A res \in Results :
        /\ DestinationOf(res)
        /\ res.size = CanvasSize(<<res.dstPoints[3][1], res.dstPoints[3][2]>>)
        /\ AxisAligned(res.corners) =>
              LET a == res.corners[2][1] - res.corners[1][1]
                  b == res.corners[4][2] - res.corners[1][2]
              IN  /\ res.dstPoints[3] = <<a, b>>
                  /\ Sub * res.size[1] <= a /\ a < Sub * (res.size[1] + 1)
                  /\ Sub * res.size[2] <= b /\ b < Sub * (res.size[2] + 1)

\* the result of a run on the default corners of the 33 x 21 image (a
\* 30.9 x 18.9 rectangle) and the result of a run on dragged corners
C16_Witness ==
    /\ proc.resultUrl # <<>>
    /\ \/ AxisAligned(proc.resultUrl[1].corners) /\ proc.resultUrl[1].size = <<30, 18>>
       \/ /\ ~AxisAligned(proc.resultUrl[1].corners)
          /\ ~HasNaN({proc.resultUrl[1].corners[i] : i \in CornerIndices})
          /\ moves > 0

\* a result of the pipeline run on the 1000 x 800 image with contrast 200,
\* sharpness 0 and binarization off
ScenarioResults ==
    {res \in Results : /\ res.image = <<home.imageUrl, 1000, 800>>
                       /\ res.contrast = 200
                       /\ res.sharpness = 0
                       /\ res.binarize = "off"}

\* C17 as claimed: loading a 1000x800 image, accepting the default corners and
\* running the pipeline with contrast=200, sharpness=0, binarize=off yields
\* an output of size 900x720, with the binarize stage not applied.
C17_Output900x720 ==
    \A res \in ScenarioResults :
        res.size = <<900, 720>> /\ res.stages = <<"warp", "contrast", "render">>

\* C17 as amended: the output is 920x720, the inset being 5% of the smaller
\* dimension (40 pixels) on every side, with binarize (and sharpen) not applied.
C17_Output920x720 ==
    \A res \in ScenarioResults :
        res.size = <<920, 720>> /\ res.stages = <<"warp", "contrast", "render">>

C17_Witness ==
    /\ proc.resultUrl # <<>>
    /\ proc.resultUrl[1] \in ScenarioResults
    /\ proc.resultUrl[1].size = <<920, 720>>

\* the promise a run started now would await
PromiseOfRetry == getOpenCV(cv).settled[getOpenCV(cv).cvPromise]

\* C18: after a run has failed with a ProcessingError, a failure of the
\* library's initialization included, the image and the corners are kept, the
\* process action is enabled again, and a retry of the run is able to succeed:
\* the promise the retry awaits is not one that has already been rejected.
C18_RetryCanSucceed ==
    (home.error \in {MsgLibraryInit, MsgProcessing} /\ ProcessorMounted(home)
       /\ ~proc.isProcessing)
      => PromiseOfRetry # "rejected"

\* the <video> element reports a zero videoWidth or videoHeight
VideoReportsZero == ~(video.loaded /\ video.srcObject # NoStream)

\* C19: a capture never produces a zero-sized raster: when the video element
\* reports a zero width or height the capture uses the size of the track's
\* settings; when those are unavailable too, it hands the camera-not-ready
\* message to onError, captures nothing (no blob is requested) and leaves the
\* camera streaming: no track is stopped and, in the input that stays on
\* screen, the stream, the video's source and the readiness timers are kept.
C19_CaptureNeverZeroSized ==
    [][\A settings \in BOOLEAN : capturePhoto(settings) =>
          IF VideoReportsZero /\ ~settings
          THEN /\ home'.error = MsgCameraNotReady
               /\ blobs' = blobs
               /\ tracks' = tracks
               /\ Rendered(Committed, pending).inputStays =>
                     /\ input'.streamRef = input.streamRef
                     /\ input'.isCameraMode
                     /\ video' = video
                     /\ timers' = timers
          ELSE /\ blobs' = blobs + 1
               /\ CameraWidth > 0 /\ CameraHeight > 0]_vars

\* the camera-not-ready error has been reported for a video without a frame
\* and the camera is still streaming
C19_Witness ==
    /\ home.error = MsgCameraNotReady
    /\ VideoReportsZero
    /\ input.isVideoReady
    /\ input.isCameraMode
    /\ input.streamRef # NoStream
    /\ tracks[input.streamRef]
    /\ blobs = 0

\* the processing flag is off once no run is in flight and every update of
\* the settled runs has been rendered
FlagCleared == (runs = {} /\ pending = <<>>) => ~proc.isProcessing

\* C20: at most one processDocument run is in flight (triggered and not yet
\* settled) at any time, and the processing flag is cleared again once the
\* run has settled, whether it succeeded or failed.
C20_SingleRunInFlight ==
    /\ Cardinality(runs) <= 1
    /\ FlagCleared

\* C21: the corner set changes only during an active drag: a pointermove
\* changes a corner only if a pointer went down on that corner since the last
\* pointerup or pointerleave, and on no other corner; without a pointerdown,
\* and after the pointerup, a pointermove changes nothing.
C21_CornersChangeOnlyInDrag ==
    [][\A p \in PointerPositions : handlePointerMove(p) =>
          \A j \in CornerIndices :
              CornersAfter(pending')[j] # CornersAfter(pending)[j] => held = {j}]_vars

\* the streams with a running track
LiveStreams == {s \in DOMAIN tracks : tracks[s]}

\* C22: at most one camera stream is live at a time, and while the session
\* holds an image no camera track is running, for any interleaving of start
\* requests, resolutions, captures and cancels.
C22_StreamsStopped ==
    /\ Cardinality(LiveStreams) <= 1
    /\ home.imageUrl # NoUrl => LiveStreams = {}

\* C23: on every path through processDocument, whichever library call
\* throws, no buffer is deleted twice and no buffer is handed to a library
\* call after it was deleted; every buffer that `work` has referred to (the
\* warped image and the output of each completed stage) has been deleted,
\* once, when the run settles: by the next stage or by the inner finally.
C23_NoDoubleReleaseNoUseAfterRelease ==
    /\ \A i \in DOMAIN pending : pending[i].k = "processEnd" => ~pending[i].misuse
    /\ \A i \in SettledRuns :
          LET done == {pending[i].url[1].stages[n] : n \in DOMAIN pending[i].url[1].stages}
          IN  /\ "warp" \in done => mats["work"] = "deleted"
              /\ "contrast" \in done => mats["contrastMat"] = "deleted"
              /\ "sharpen" \in done => mats["sharpResult"] = "deleted"
              /\ {"binarize", "render"} \subseteq done => mats["rgba"] = "deleted"

\* a run in which cv.imshow threw after work was reassigned three times
C23_Witness ==
    \E i \in SettledRuns :
        /\ pending[i].thrown
        /\ pending[i].url[1].stages = <<"warp", "contrast", "sharpen", "binarize">>
        /\ mats["rgba"] = "deleted"
        /\ ~pending[i].misuse

\* C24: whenever a result is shown, the session's error is empty: no
\* message of an earlier failed run or failed acquisition is still surfaced
\* once a run has completed successfully.
C24_NoErrorWithResult ==
    (ProcessorMounted(home) /\ proc.resultUrl # <<>>) => home.error = ""

\* the image, corners, error and result of the session once the updates q
\* have been rendered
SessionAfter(q) ==
    LET r == Rendered(Committed, q)
    IN  <<r.home.imageUrl, r.home.imageElement, r.home.corners, r.home.error,
          r.proc.resultUrl>>

\* a run started in a processor that has been unmounted since, or on an
\* image that is no longer the session's
StaleRun(run) == run.old \/ run.imageElement # home.imageElement

\* C25: an asynchronous completion that belongs to an earlier session never
\* changes a later one: an image decode that was started before the image
\* the session now holds was loaded, and a pipeline run started before a new
\* image was requested or loaded, change neither the image, the corners, the
\* error nor the result of the session when they settle.
C25_StaleCompletionIgnored ==
    [][/\ \A d \in decodes :
             (home.imageUrl # NoUrl /\ (ImageOnLoad(d) \/ ImageOnError(d)))
                => SessionAfter(pending') = SessionAfter(pending)
       /\ \A run \in runs : \A t \in SessionThrows :
             (StaleRun(run) /\ processDocumentResume(run, t))
                => SessionAfter(pending') = SessionAfter(pending)]_vars

====
